---- MODULE Spec2Model ----
(***************************************************************************)
(* Model of the multi-persona fan-out orchestrator of the feedback API:    *)
(* api/agents/persona_agent.py (get_all_feedback, stream_all_feedback) and *)
(* the two feedback endpoints of api/routers/feedback.py that call it.     *)
(*                                                                         *)
(* One behaviour is one run: a direct call of get_all_feedback or          *)
(* stream_all_feedback, or one request to POST /api/feedback or            *)
(* POST /api/feedback/stream.  The asyncio event loop is single-threaded   *)
(* and cooperative, so every action is the code that runs between two      *)
(* suspension points of one coroutine.                                     *)
(*                                                                         *)
(* Queue items and gather results carry a field "task": the index of the   *)
(* persona entry they belong to.  It is a ghost field (the program's       *)
(* events carry only the persona id); it tells apart the events of two     *)
(* entries that name the same persona.                                     *)
(***************************************************************************)
EXTENDS Integers, Sequences, FiniteSets, TLC

\* ---------------------------------------------------------------- bounds
MaxPersonas == 2
MaxFrames == 2
MaxIssues == 1
MaxAnnotations == 2

\* ------------------------------------------------------- persona registry
PERSONAS ==
  {"first_time_user", "power_user", "accessibility_advocate",
   "brand_manager", "skeptical_customer"}

\* ids a request may name: two registered ids, one that is not, and one that
\* differs from a registered id in case only
IdPool == {"first_time_user", "power_user", "bogus_id", "Power_User"}

\* faulty variant: ids are folded to lower case before the lookup
get_persona_CaseInsensitive(persona_id) ==
  LET lower == IF persona_id = "Power_User" THEN "power_user" ELSE persona_id
  IN IF lower \in PERSONAS THEN lower ELSE "None"

get_persona(persona_id) ==
  IF persona_id \in PERSONAS THEN persona_id ELSE "None"

\* ------------------------------------------------------------ exceptions
\* classes an invocation can raise; CancelledError derives from
\* BaseException, the other two from Exception
ExceptionSubclasses == {"Exception", "TypeError"}
RaisedClasses == ExceptionSubclasses \cup {"CancelledError"}

IsInstanceException(cls) == cls \in ExceptionSubclasses

\* ------------------------------------------------------------ sequences
BoundedSeq(S, n) == UNION {[1..k -> S] : k \in 0..n}

\* faulty variant: unresolved entries stay in the list
IsNotNone_KeepsAll(p) == TRUE

IsNotNone(p) == p # "None"

\* faulty variant: the lookups are not filtered
ValidPersonas_Unfiltered(ids) ==
  [k \in 1 .. Len(ids) |-> get_persona(ids[k])]

\* personas = [get_persona(pid) ...]; valid_personas = [p ... if p is not None]
ValidPersonas(ids) ==
  SelectSeq([k \in 1 .. Len(ids) |-> get_persona(ids[k])], IsNotNone)

\* faulty variant: the endpoint's check finds no invalid id
InvalidPersonas_None(ids) == <<>>

\* invalid = [p for p in persona_ids if get_persona(p) is None]
InvalidPersonas(ids) ==
  SelectSeq(ids, LAMBDA p : get_persona(p) = "None")

\* --------------------------------------------------------------- values
Item(type, cls, persona, i) ==
  [type |-> type, cls |-> cls, persona |-> persona, task |-> i]

StartEvent(persona, i) == Item("persona-start", "", persona, i)
Feedback(persona, i) == Item("feedback", "", persona, i)
ErrorRecord(persona, i, cls) == Item("error", cls, persona, i)
ExceptionObject(persona, i, cls) == Item("exception", cls, persona, i)

\* faulty variant: a stack instead of a FIFO queue
QueuePut_Lifo(q, item) == <<item>> \o q

\* asyncio.Queue: unbounded FIFO, put never suspends
QueuePut(q, item) == Append(q, item)
QueueHead(q) == Head(q)
QueueRest(q) == Tail(q)

\* faulty variant: counts one event per persona (terminal events only)
Expected_TerminalsOnly(vp) == Len(vp)

\* expected = len(valid_personas) * 2
Expected(vp) == Len(vp) * 2

\* ------------------------------------------------------------- requests
Modes == {"get_all_feedback", "stream_all_feedback", "get_feedback", "stream_feedback"}
EndpointModes == {"get_feedback", "stream_feedback"}
StreamModes == {"stream_all_feedback", "stream_feedback"}
BatchModes == {"get_all_feedback", "get_feedback"}

\* a FeedbackRequest body: image / metadata present or not, frames None (-1)
\* or a list of 0..MaxFrames FrameData
Requests ==
  [image : BOOLEAN, metadata : BOOLEAN, frames : -1 .. MaxFrames]

\* a frame list: the class of its elements, its length and its elements.
\* Frame k of a request's frames list is written k, the frame built from the
\* top-level image and metadata is written 0
FrameList(kind, items) ==
  [kind |-> kind, count |-> Len(items), items |-> items]

\* frames handed to a direct call: a list of dicts, or of FrameData objects
DirectFrames ==
  {FrameList(kind, [k \in 1 .. n |-> k]) :
     kind \in {"dict", "FrameData"}, n \in 1 .. MaxFrames}

NoFrames == FrameList("none", <<>>)

\* _normalize_frames: the list passed on, or "400"
NormalizeOk(req) ==
  \/ req.frames > 0
  \/ (req.image /\ req.metadata)

\* faulty variant: the frames list is passed on in reverse order
NormalizeFrames_Reversed(req) ==
  IF req.frames > 0
    THEN FrameList("FrameData", [k \in 1 .. req.frames |-> req.frames + 1 - k])
    ELSE FrameList("FrameData", <<0>>)

\* frames = request.frames, or [FrameData(image=..., metadata=...)]
NormalizeFrames(req) ==
  IF req.frames > 0
    THEN FrameList("FrameData", [k \in 1 .. req.frames |-> k])
    ELSE FrameList("FrameData", <<0>>)

\* --------------------------------------------------- structured output
\* sample values of a percentage field and of a score, around their limits
Pcts == {-1, 0, 100, 101}
Scores == {0, 1, 10, 11}

\* the fields of an annotation that differ from the plainest annotation
\* (frame_index left out, everything else 0)
Deviations(a) ==
  {f \in {"x_pct", "y_pct", "width_pct", "height_pct", "issue_index"} :
     a[f] # 0}
  \cup (IF a.frame_index_given THEN {"frame_index"} ELSE {})

\* an annotation as the model wrote it: frame_index may be left out.  The
\* annotations considered differ from the plainest one in at most one field
RawAnnotations ==
  {a \in [frame_index_given : BOOLEAN, frame_index : -1 .. MaxFrames,
          x_pct : Pcts, y_pct : Pcts, width_pct : Pcts, height_pct : Pcts,
          issue_index : -1 .. MaxIssues] :
     /\ ~a.frame_index_given => a.frame_index = 0
     /\ Cardinality(Deviations(a)) <= 1}

\* the structured output the model wrote: a number of issues, a score and
\* the annotations (None and the empty list are both the empty sequence)
RawOutputs ==
  [issues : 0 .. MaxIssues, score : Scores,
   annotations : BoundedSeq(RawAnnotations, MaxAnnotations)]

\* faulty variant: the lower bound is not checked
ge_Unchecked(v, bound) == TRUE

\* Field(ge=...) and Field(le=...)
ge(v, bound) == v >= bound
le(v, bound) == v <= bound

\* the field constraints of Annotation
AnnotationValid(a) ==
  /\ a.frame_index_given => ge(a.frame_index, 0)
  /\ ge(a.x_pct, 0) /\ le(a.x_pct, 100)
  /\ ge(a.y_pct, 0) /\ le(a.y_pct, 100)
  /\ ge(a.width_pct, 0) /\ le(a.width_pct, 100)
  /\ ge(a.height_pct, 0) /\ le(a.height_pct, 100)
  /\ ge(a.issue_index, 0)

\* the Annotation built from valid data: frame_index: int = Field(default=0)
Annotation(a) ==
  [frame_index |-> IF a.frame_index_given THEN a.frame_index ELSE 0,
   x_pct |-> a.x_pct, y_pct |-> a.y_pct,
   width_pct |-> a.width_pct, height_pct |-> a.height_pct,
   issue_index |-> a.issue_index]

\* the field constraints of PersonaFeedback and of its annotations
PersonaFeedbackValid(raw) ==
  /\ ge(raw.score, 1) /\ le(raw.score, 10)
  /\ \A k \in 1 .. Len(raw.annotations) : AnnotationValid(raw.annotations[k])

\* the PersonaFeedback built from valid data
PersonaFeedback(raw) ==
  [issues |-> raw.issues, score |-> raw.score,
   annotations |-> [k \in 1 .. Len(raw.annotations) |->
                      Annotation(raw.annotations[k])]]

NoOutput == [issues |-> 0, score |-> 0, annotations |-> <<>>]

\* no invocation is being followed
\* no text is given
NoText == [persona |-> "", form |-> "none"]

\* feedback_agent.run has not been called
NoCall ==
  [message_parts |-> <<>>, model |-> "", instructions |-> NoText,
   system_prompt |-> NoText]

NoAgentRun ==
  [stage |-> "none", persona |-> "", frame_kind |-> "none", frame_count |-> 0,
   model_calls |-> 0, call |-> NoCall, exception |-> "",
   raw |-> NoOutput, output |-> NoOutput]

\* ------------------------------------------------------- HTTP exchange
\* settings.api_key: empty, or a key
ApiKeys == {"", "secret"}

Methods == {"GET", "POST", "OPTIONS"}
Paths == {"/health", "/api/personas", "/api/feedback", "/api/feedback/stream"}

\* the X-API-Key header of a request: absent, empty, the configured key, a
\* wrong key, a wrong key with a character outside ASCII
ApiKeyHeaders == {"<absent>", "", "secret", "wrong-key", "wr\\xf6ng-key"}

IsAscii(str) == str # "wr\\xf6ng-key"

\* no response yet
NoBody == [detail |-> "", status |-> "", auth_required |-> FALSE]

\* no request is being followed
NoExchange ==
  [api_key |-> "", method |-> "", path |-> "", header |-> "<absent>",
   stage |-> "none", status_code |-> 0, content |-> NoBody,
   handler |-> "none", exception |-> "", propagated |-> "", log |-> <<>>]

\* no pair of concurrent calls is being followed
NoPair ==
  [kind |-> <<>>, personas |-> <<>>, plan |-> <<>>, pc |-> <<>>,
   task |-> <<>>, queue |-> <<>>, received |-> <<>>, yielded |-> <<>>,
   results |-> <<>>, feedback |-> <<>>]

VARIABLES
  agent_run,       \* one invocation: the model's output on its way out
  exchange,        \* one HTTP request on its way through the middleware
  pair,            \* two orchestrator calls running in one event loop
  mode,            \* the entry point of this run
  persona_ids,     \* the persona ids of the call / request
  request,         \* the request body (endpoint modes)
  frames,          \* the frame list the orchestrator was given
  http,            \* status of the HTTP response, 0 while there is none
  pc,              \* position of the caller / generator
  valid_personas,  \* resolved personas, in list order
  task,            \* per resolved entry: pending/running/done/cancelled
  outcome,         \* per resolved entry: how its invocation ended, or "none"
  completed,       \* task indices in the order the invocations finished
  calls,           \* task indices whose model call was started
  invoked,         \* per resolved entry: times get_persona_feedback was called
  queue,           \* asyncio.Queue of the stream run
  received,        \* counter of stream_all_feedback
  yielded,         \* items stream_all_feedback has yielded
  sse,             \* SSE frames event_generator has yielded
  results,         \* per entry: what gather collected for it
  feedback         \* the list get_all_feedback returned

vars ==
  <<agent_run, exchange, pair,
    mode, persona_ids, request, frames, http, pc, valid_personas, task,
    outcome, completed, calls, invoked, queue, received, yielded, sse, results,
    feedback>>

N == Len(valid_personas)
Tasks == 1 .. N

Unfinished(t) == t \in {"pending", "running"}

NoResult == Item("none", "", "", 0)

Init ==
  /\ agent_run = NoAgentRun
  /\ exchange = NoExchange
  /\ pair = NoPair
  /\ mode \in Modes
  /\ persona_ids \in BoundedSeq(IdPool, MaxPersonas)
  /\ IF mode \in EndpointModes
       THEN request \in Requests /\ frames = NoFrames
       ELSE request = [image |-> FALSE, metadata |-> FALSE, frames |-> -1]
            /\ frames \in DirectFrames
  /\ http = 0
  /\ pc = "idle"
  /\ valid_personas = <<>>
  /\ task = <<>>
  /\ outcome = <<>>
  /\ completed = <<>>
  /\ calls = {}
  /\ invoked = <<>>
  /\ queue = <<>>
  /\ received = 0
  /\ yielded = <<>>
  /\ sse = <<>>
  /\ results = <<>>
  /\ feedback = <<>>


\* -------------------------------------------------- orchestrator pieces
\* faulty variant: the handler catches one exception class only
Catches_TypeErrorOnly(cls) == cls = "TypeError"

\* except Exception as e  (in _run_persona)
Catches(cls) == cls \in ExceptionSubclasses

\* faulty variant: no start event is put
RunPersonaStart_Omitted(q, persona, i) == q

\* the first statement of _run_persona: the start event is put on the queue
RunPersonaStart(q, persona, i) == QueuePut(q, StartEvent(persona, i))

\* faulty variant: a caught exception is logged but no error record is put
RunPersonaTerminal_ErrorSwallowed(q, persona, i, o) ==
  IF o = "ok" THEN QueuePut(q, Feedback(persona, i)) ELSE q

\* the queue after _run_persona has handled outcome o of its invocation:
\* a result, an error record, or nothing when the exception is not caught
RunPersonaTerminal(q, persona, i, o) ==
  IF o = "ok" THEN QueuePut(q, Feedback(persona, i))
  ELSE IF Catches(o) THEN QueuePut(q, ErrorRecord(persona, i, o))
  ELSE q

\* what asyncio.gather(..., return_exceptions=True) stores for a child
GatherResult(persona, i, o) ==
  IF o = "ok" THEN Feedback(persona, i) ELSE ExceptionObject(persona, i, o)

\* faulty variant: a task whose invocation raised an Exception runs again
TaskEndState_Retry(o) ==
  IF o = "CancelledError" THEN "cancelled"
  ELSE IF o \in ExceptionSubclasses THEN "pending"
  ELSE "done"

\* a task whose coroutine returns or raises is done; one whose coroutine
\* lets CancelledError escape is cancelled
TaskEndState(o) == IF o = "CancelledError" THEN "cancelled" ELSE "done"

\* faulty variant: no gathered result is recognised as an exception
IsInstanceOfException_Never(r) == FALSE

\* isinstance(result, Exception)  (in get_all_feedback)
IsInstanceOfException(r) ==
  r.type = "exception" /\ IsInstanceException(r.cls)

\* the loop of get_all_feedback over zip(valid_personas, results)
BatchFeedback(rs) == SelectSeq(rs, LAMBDA r : ~IsInstanceOfException(r))

\* FeedbackResponse(feedback=feedback) validates list[PersonaFeedback]
ResponseStatus(fb) ==
  IF \A k \in 1 .. Len(fb) : fb[k].type = "feedback" THEN 200 ELSE 500

\* ------------------------------------------------------------ SSE frames
\* faulty variant: every frame is written without an event line
Frame_Untyped(event, item) ==
  [event |-> "message", persona |-> item.persona, task |-> item.task]

Frame(event, item) ==
  [event |-> event, persona |-> item.persona, task |-> item.task]

DoneFrame == [event |-> "done", persona |-> "", task |-> 0]

\* faulty variant: an error record also ends the response with a done frame
SSEFrames_DoneOnError(item) ==
  IF item.type = "keepalive" THEN <<Frame("keepalive", item)>>
  ELSE IF item.type = "feedback" THEN <<Frame("message", item)>>
  ELSE IF item.type = "persona-start" THEN <<Frame("persona-start", item)>>
  ELSE IF item.type = "error" THEN <<Frame("persona-error", item), DoneFrame>>
  ELSE <<>>

\* the match statement of event_generator: the frames one item becomes
SSEFrames(item) ==
  IF item.type = "keepalive" THEN <<Frame("keepalive", item)>>
  ELSE IF item.type = "feedback" THEN <<Frame("message", item)>>
  ELSE IF item.type = "persona-start" THEN <<Frame("persona-start", item)>>
  ELSE IF item.type = "error" THEN <<Frame("persona-error", item)>>
  ELSE <<>>

\* after the async for: yield "event: done\ndata: {}\n\n"
EventGeneratorEpilogue(fr) == Append(fr, DoneFrame)

\* ------------------------------------------------------------- endpoints
\* faulty variant: the personas field has no minimum length
PersonasFieldValid_NoMinimum(ids) == TRUE

\* FeedbackRequest.personas: Field(min_length=1)
PersonasFieldValid(ids) == Len(ids) >= 1

\* faulty variant: unknown ids are not rejected
ValidatePersonasOk_AcceptsAll(ids) == TRUE

\* _validate_personas raises HTTPException(400) iff invalid is non-empty
ValidatePersonasOk(ids) == InvalidPersonas(ids) = <<>>

RequestValidation ==
  /\ mode \in EndpointModes
  /\ pc = "idle"
  /\ ~PersonasFieldValid(persona_ids)
  /\ http' = 422
  /\ pc' = "rejected"
  /\ UNCHANGED <<agent_run, exchange, pair,
                 mode, persona_ids, request, frames, valid_personas, task,
                 outcome, completed, calls, invoked,
                 queue, received, yielded, sse, results,
                 feedback>>

Reject400 ==
  /\ http' = 400
  /\ pc' = "rejected"
  /\ UNCHANGED <<agent_run, exchange, pair,
                 mode, persona_ids, request, frames, valid_personas, task,
                 outcome, completed, calls, invoked,
                 queue, received, yielded, sse, results,
                 feedback>>

\* get_all_feedback up to "await asyncio.gather(...)"
BatchStart(fr) ==
  LET vp == ValidPersonas(persona_ids) IN
  /\ frames' = fr
  /\ valid_personas' = vp
  /\ task' = [i \in 1 .. Len(vp) |-> "pending"]
  /\ outcome' = [i \in 1 .. Len(vp) |-> "none"]
  /\ results' = [i \in 1 .. Len(vp) |-> NoResult]
  /\ IF Len(vp) = 0
       THEN /\ feedback' = BatchFeedback(<<>>)
            /\ pc' = "returned"
            /\ http' = IF mode \in EndpointModes THEN ResponseStatus(<<>>) ELSE http
       ELSE /\ feedback' = feedback
            /\ pc' = "gathering"
            /\ http' = http
  /\ invoked' = [i \in 1 .. Len(vp) |-> 0]
  /\ UNCHANGED <<agent_run, exchange, pair,
                 mode, persona_ids, request, completed, calls,
                 queue,
                 received, yielded, sse>>

get_all_feedback ==
  /\ mode = "get_all_feedback"
  /\ pc = "idle"
  /\ BatchStart(frames)

get_feedback ==
  /\ mode = "get_feedback"
  /\ pc = "idle"
  /\ PersonasFieldValid(persona_ids)
  /\ IF ~ValidatePersonasOk(persona_ids) THEN Reject400
     ELSE IF ~NormalizeOk(request) THEN Reject400
     ELSE BatchStart(NormalizeFrames(request))

stream_feedback ==
  /\ mode = "stream_feedback"
  /\ pc = "idle"
  /\ PersonasFieldValid(persona_ids)
  /\ IF ~ValidatePersonasOk(persona_ids) THEN Reject400
     ELSE IF ~NormalizeOk(request) THEN Reject400
     ELSE /\ frames' = NormalizeFrames(request)
          /\ http' = 200
          /\ pc' = "response"
          /\ UNCHANGED <<agent_run, exchange, pair,
                         mode, persona_ids, request, valid_personas, task,
                         outcome, completed, calls, invoked, queue,
                         received, yielded, sse, results, feedback>>


\* ----------------------------------------------------------------- tasks
\* get_persona_feedback reads frame["image"] before it calls the model: a
\* FrameData object is not subscriptable, so the invocation raises TypeError
\* in its first step and the model is never called
PrepareOutcome(fr) == IF fr.kind = "dict" THEN "ok" ELSE "TypeError"

\* faulty variant: results are collected in completion order
GatherStore_CompletionOrder(rs, i, r) ==
  LET k == CHOOSE k \in DOMAIN rs :
             rs[k].type = "none" /\ \A j \in 1 .. k - 1 : rs[j].type # "none"
  IN [rs EXCEPT ![k] = r]

\* gather stores a child's result at the child's position
GatherStore(rs, i, r) == [rs EXCEPT ![i] = r]

\* faulty variant: gather called without return_exceptions
return_exceptions_Default == FALSE

\* asyncio.gather(*coros, return_exceptions=True)
return_exceptions == TRUE

\* without return_exceptions gather hands a child's exception to its caller
GatherPropagates(o) == ~return_exceptions /\ o # "ok"

\* the end of an invocation with outcome o, in either mode
Finish(i, o, q) ==
  /\ task' = [task EXCEPT ![i] = TaskEndState(o)]
  /\ outcome' = [outcome EXCEPT ![i] = o]
  /\ completed' = Append(completed, i)
  /\ IF mode \in StreamModes
       THEN /\ queue' = RunPersonaTerminal(q, valid_personas[i], i, o)
            /\ results' = results
            /\ pc' = pc
       ELSE /\ queue' = q
            /\ results' = GatherStore(results, i, GatherResult(valid_personas[i], i, o))
            /\ pc' = IF GatherPropagates(o) THEN "raised" ELSE pc

\* faulty variant: the event loop picks any task that has not run yet
Runnable_AnyOrder(ts, i) == ts[i] = "pending"

\* faulty variant: the invocations are awaited one after the other
Runnable_AfterSiblings(ts, i) ==
  /\ ts[i] = "pending"
  /\ \A j \in 1 .. i - 1 : ~Unfinished(ts[j])

\* gather(*coros) and create_task(...) schedule every invocation at once;
\* the event loop gives the tasks their first step in creation order
Runnable(ts, i) ==
  /\ ts[i] = "pending"
  /\ \A j \in 1 .. i - 1 : ts[j] # "pending"

\* the first step of a task: the event loop runs the tasks in creation order.
\* _run_persona puts the start event; get_persona_feedback then prepares the
\* images and suspends in the model call, or raises before it
TaskFirstStep(i) ==
  /\ pc \in {"gathering", "waiting"}
  /\ i \in Tasks
  /\ Runnable(task, i)
  /\ LET q1 == IF mode \in StreamModes
                 THEN RunPersonaStart(queue, valid_personas[i], i)
                 ELSE queue
         o == PrepareOutcome(frames)
     IN /\ invoked' = [invoked EXCEPT ![i] = @ + 1]
        /\ IF o = "ok"
             THEN /\ task' = [task EXCEPT ![i] = "running"]
                  /\ calls' = calls \cup {i}
                  /\ queue' = q1
                  /\ UNCHANGED <<outcome, completed, results, pc>>
             ELSE /\ Finish(i, o, q1)
                  /\ calls' = calls
  /\ UNCHANGED <<agent_run, exchange, pair,
                 mode, persona_ids, request, frames, http, valid_personas,
                 received, yielded, sse, feedback>>

\* outcomes of the model call: it returns, raises an Exception, or raises
\* CancelledError
GatewayOutcomes == {"ok", "Exception", "CancelledError"}

\* the model call of task i finishes and the task runs to its end
GatewayComplete(i, o) ==
  /\ pc \in {"gathering", "waiting", "yielded", "closed"}
  /\ i \in Tasks
  /\ task[i] = "running"
  /\ Finish(i, o, queue)
  /\ UNCHANGED <<agent_run, exchange, pair,
                 mode, persona_ids, request, frames, http, valid_personas,
                 calls, invoked,
                 received, yielded, sse, feedback>>

\* faulty variant: the wait ends with the first child that finishes
GatherDone_FirstCompleted(ts) == \E i \in DOMAIN ts : ~Unfinished(ts[i])

\* "await asyncio.gather(...)" resumes when every child has finished
GatherDone(ts) == \A i \in DOMAIN ts : ~Unfinished(ts[i])

\* gather has all results: the loop filters them and the call returns
BatchReturn ==
  /\ pc = "gathering"
  /\ GatherDone(task)
  /\ feedback' = BatchFeedback(results)
  /\ pc' = "returned"
  /\ http' = IF mode \in EndpointModes THEN ResponseStatus(feedback') ELSE http
  /\ UNCHANGED <<agent_run, exchange, pair,
                 mode, persona_ids, request, frames, valid_personas, task,
                 outcome, completed, calls, invoked,
                 queue, received, yielded, sse, results>>

\* ---------------------------------------------------------------- stream
\* item = await queue.get(); received += 1; yield item  (and its SSE frame)
TakeItem ==
  LET item == QueueHead(queue) IN
  /\ queue' = QueueRest(queue)
  /\ received' = received + 1
  /\ yielded' = Append(yielded, item)
  /\ sse' = IF mode \in EndpointModes THEN sse \o SSEFrames(item) ELSE sse
  /\ pc' = "yielded"

\* for task in tasks: if not task.done(): task.cancel()
CancelUnfinished(ts) ==
  [i \in DOMAIN ts |-> IF Unfinished(ts[i]) THEN "cancelled" ELSE ts[i]]

\* the generator returns; event_generator then yields the done frame
EndStream(ts) ==
  /\ task' = CancelUnfinished(ts)
  /\ pc' = "ended"
  /\ sse' = IF mode \in EndpointModes THEN EventGeneratorEpilogue(sse) ELSE sse

\* the consumer's first pull: stream_all_feedback up to "await queue.get()"
StreamStart ==
  /\ \/ mode = "stream_all_feedback" /\ pc = "idle"
     \/ mode = "stream_feedback" /\ pc = "response"
  /\ LET vp == ValidPersonas(persona_ids) IN
     /\ valid_personas' = vp
     /\ IF Len(vp) = 0
          THEN EndStream(<<>>)
          ELSE /\ task' = [i \in 1 .. Len(vp) |-> "pending"]
               /\ pc' = "waiting"
               /\ sse' = sse
     /\ outcome' = [i \in 1 .. Len(vp) |-> "none"]
     /\ invoked' = [i \in 1 .. Len(vp) |-> 0]
  /\ UNCHANGED <<agent_run, exchange, pair,
                 mode, persona_ids, request, frames, http, completed, calls,
                 queue, received, yielded, results, feedback>>

\* faulty variant: the loop counts one event per persona and the tasks are
\* not cancelled after it
StreamNext_ShortCountNoCancel ==
  /\ mode \in StreamModes
  /\ pc = "yielded"
  /\ IF received < Len(valid_personas)
       THEN IF queue # <<>>
              THEN TakeItem /\ task' = task
              ELSE /\ pc' = "waiting"
                   /\ UNCHANGED <<queue, received, yielded, sse, task>>
       ELSE /\ pc' = "ended"
            /\ sse' = IF mode \in EndpointModes
                        THEN EventGeneratorEpilogue(sse) ELSE sse
            /\ UNCHANGED <<queue, received, yielded, task>>
  /\ UNCHANGED <<agent_run, exchange, pair,
                 mode, persona_ids, request, frames, http, valid_personas,
                 outcome, completed, calls, invoked, results, feedback>>

\* the consumer pulls again: the loop test, then the next item if there is
\* one, the wait if there is none, the code after the loop if it has ended
StreamNext ==
  /\ mode \in StreamModes
  /\ pc = "yielded"
  /\ IF received < Expected(valid_personas)
       THEN IF queue # <<>>
              THEN TakeItem /\ task' = task
              ELSE /\ pc' = "waiting"
                   /\ UNCHANGED <<queue, received, yielded, sse, task>>
       ELSE EndStream(task) /\ UNCHANGED <<queue, received, yielded>>
  /\ UNCHANGED <<agent_run, exchange, pair,
                 mode, persona_ids, request, frames, http, valid_personas,
                 outcome, completed, calls, invoked,
                 results, feedback>>

\* faulty variant: the generator is resumed only when no model call is in
\* flight
StreamWake_AfterCalls ==
  /\ mode \in StreamModes
  /\ pc = "waiting"
  /\ queue # <<>>
  /\ \A i \in Tasks : ~Unfinished(task[i])
  /\ TakeItem
  /\ UNCHANGED <<agent_run, exchange, pair,
                 mode, persona_ids, request, frames, http, valid_personas,
                 task, outcome, completed, calls, invoked,
                 results, feedback>>

\* the generator waiting in queue.get() is resumed with an item; its wake-up
\* is scheduled behind the first steps of the tasks
StreamWake ==
  /\ mode \in StreamModes
  /\ pc = "waiting"
  /\ queue # <<>>
  /\ \A i \in Tasks : task[i] # "pending"
  /\ TakeItem
  /\ UNCHANGED <<agent_run, exchange, pair,
                 mode, persona_ids, request, frames, http, valid_personas,
                 task, outcome, completed, calls, invoked,
                 results, feedback>>

\* the consumer closes the generator at a yield (GeneratorExit), or is
\* cancelled while it waits in queue.get() (CancelledError): the generator
\* has no try/finally, so nothing after the loop runs.  The exception is
\* delivered in a later step of the event loop than the first steps of the
\* tasks, which were scheduled when the generator started
ConsumerStops ==
  /\ mode \in StreamModes
  /\ pc \in {"yielded", "waiting"}
  /\ \A i \in Tasks : task[i] # "pending"
  /\ pc' = "closed"
  /\ UNCHANGED <<agent_run, exchange, pair,
                 mode, persona_ids, request, frames, http, valid_personas,
                 task, outcome, completed, calls, invoked,
                 queue, received, yielded, sse,
                 results, feedback>>

Next ==
  \/ RequestValidation
  \/ get_all_feedback
  \/ get_feedback
  \/ stream_feedback
  \/ \E i \in 1 .. MaxPersonas + 1 : TaskFirstStep(i)
  \/ \E i \in 1 .. MaxPersonas + 1 : \E o \in GatewayOutcomes : GatewayComplete(i, o)
  \/ BatchReturn
  \/ StreamStart
  \/ StreamNext
  \/ StreamWake
  \/ ConsumerStops

Spec == Init /\ [][Next]_vars

\* ------------------------------------------------- stream runs, live
\* a stream run whose consumer keeps pulling and whose model calls each end
\* by returning or by raising an Exception
InitLive == Init /\ mode \in StreamModes

\* the model call of task i returns a result or raises an Exception
GatewayReturnsOrRaises(i) ==
  \E o \in {"ok", "Exception"} : GatewayComplete(i, o)

NextLive ==
  \/ RequestValidation
  \/ stream_feedback
  \/ \E i \in 1 .. MaxPersonas + 1 : TaskFirstStep(i)
  \/ \E i \in 1 .. MaxPersonas + 1 : GatewayReturnsOrRaises(i)
  \/ StreamStart
  \/ StreamNext
  \/ StreamWake

\* the event loop runs every ready task and resumes the generator when an
\* item is queued; the consumer pulls whenever the generator has yielded;
\* every model call that was started ends
FairnessLive ==
  /\ WF_vars(StreamStart)
  /\ WF_vars(StreamNext)
  /\ WF_vars(StreamWake)
  /\ \A i \in 1 .. MaxPersonas + 1 : WF_vars(TaskFirstStep(i))
  /\ \A i \in 1 .. MaxPersonas + 1 : WF_vars(GatewayReturnsOrRaises(i))

SpecLive == InitLive /\ [][NextLive]_vars /\ FairnessLive


\* ------------------------------------------- one invocation's output
orchestrator_vars ==
  <<mode, persona_ids, request, frames, http, pc, valid_personas, task,
    outcome, completed, calls, invoked, queue, received, yielded, sse, results,
    feedback>>

\* no feedback run is being followed
OrchestratorIdle ==
  /\ mode = "none"
  /\ persona_ids = <<>>
  /\ request = [image |-> FALSE, metadata |-> FALSE, frames |-> -1]
  /\ frames = NoFrames
  /\ http = 0
  /\ pc = "idle"
  /\ valid_personas = <<>>
  /\ task = <<>>
  /\ outcome = <<>>
  /\ completed = <<>>
  /\ calls = {}
  /\ invoked = <<>>
  /\ queue = <<>>
  /\ received = 0
  /\ yielded = <<>>
  /\ sse = <<>>
  /\ results = <<>>
  /\ feedback = <<>>

\* the text _build_user_prompt returns: the flow form lists the frames in
\* order, the single form describes frames[0]; both name the persona and the
\* range of frame_index
build_user_prompt(persona, k) ==
  [form |-> IF k > 1 THEN "flow" ELSE "single",
   frames_listed |-> IF k > 1 THEN [i \in 1 .. k |-> i] ELSE <<>>,
   persona_label |-> persona,
   persona_id |-> persona,
   frame_index_max |-> k - 1]

\* the text _build_instructions returns: the persona's system prompt, then
\* the multi-screen wording or the single-screenshot wording
build_instructions(persona, is_flow) ==
  [persona |-> persona, form |-> IF is_flow THEN "flow" ELSE "single"]

\* feedback_agent = Agent(output_type=PersonaFeedback): the agent has no
\* system prompt, and run is given none
AgentSystemPrompt == NoText

\* image_parts: one BinaryContent per frame, appended in frame order
ImageParts(k) == [i \in 1 .. k |-> [part |-> "image", frame |-> i]]

\* [*image_parts, user_prompt]
MessageParts(persona, k) ==
  Append(ImageParts(k), [part |-> "text", prompt |-> build_user_prompt(persona, k)])

\* what stops get_persona_feedback before the model call: frame["image"] on
\* a FrameData object (TypeError), frames[0] of an empty list (IndexError)
RaisedBeforeCall(kind, k) ==
  IF k > 0 /\ PrepareOutcome([kind |-> kind]) # "ok"
    THEN PrepareOutcome([kind |-> kind])
  ELSE IF k = 0 THEN "IndexError"
  ELSE ""

\* the invocations followed: a persona, and a list of dicts for which the
\* model will answer with raw, an empty list, or a list of FrameData objects
\* as the endpoints pass it
AgentInputs ==
  [stage : {"invoked"}, persona : {"first_time_user"}, frame_kind : {"dict"},
   frame_count : 1 .. MaxFrames, model_calls : {0}, call : {NoCall},
   exception : {""}, raw : RawOutputs, output : {NoOutput}]
  \cup
  [stage : {"invoked"}, persona : {"first_time_user", "power_user"},
   frame_kind : {"dict", "FrameData"},
   frame_count : 0 .. MaxFrames, model_calls : {0}, call : {NoCall},
   exception : {""}, raw : {NoOutput}, output : {NoOutput}]

\* get_persona_feedback has been called and has not run yet
InitAgent ==
  /\ OrchestratorIdle
  /\ exchange = NoExchange
  /\ pair = NoPair
  /\ agent_run \in AgentInputs

\* get_persona_feedback up to the await of feedback_agent.run: the images
\* are prepared, the prompt and the instructions are built and the model is
\* called, unless an exception ends the invocation before
get_persona_feedback ==
  /\ agent_run.stage = "invoked"
  /\ LET k == agent_run.frame_count
         e == RaisedBeforeCall(agent_run.frame_kind, k)
     IN agent_run' =
          IF e # ""
            THEN [agent_run EXCEPT !.stage = "failed", !.exception = e]
            ELSE [agent_run EXCEPT
                    !.stage = "running",
                    !.model_calls = @ + 1,
                    !.call = [message_parts |-> MessageParts(agent_run.persona, k),
                              model |-> "settings.model_name",
                              instructions |->
                                build_instructions(agent_run.persona, k > 1),
                              system_prompt |-> AgentSystemPrompt]]
  /\ UNCHANGED <<exchange, pair, orchestrator_vars>>

\* feedback_agent.run with output_type=PersonaFeedback: the answer is
\* validated into a PersonaFeedback, or the run raises
AgentRun ==
  /\ agent_run.stage = "running"
  /\ agent_run' =
       IF PersonaFeedbackValid(agent_run.raw)
         THEN [agent_run EXCEPT !.stage = "validated",
                                !.output = PersonaFeedback(agent_run.raw)]
         ELSE [agent_run EXCEPT !.stage = "raised"]
  /\ UNCHANGED <<exchange, pair, orchestrator_vars>>

\* output = result.output; return output: the orchestrator returns or
\* yields this object as it is
ReturnOutput ==
  /\ agent_run.stage = "validated"
  /\ agent_run' = [agent_run EXCEPT !.stage = "returned"]
  /\ UNCHANGED <<exchange, pair, orchestrator_vars>>

NextAgent ==
  \/ get_persona_feedback
  \/ AgentRun
  \/ ReturnOutput

SpecAgent == InitAgent /\ [][NextAgent]_vars

\* ------------------------------------------------- API key middleware
\* secrets.compare_digest on two str: raises TypeError unless both are ASCII
compare_digest(a, b) ==
  IF ~IsAscii(a) \/ ~IsAscii(b) THEN "TypeError"
  ELSE IF a = b THEN "True" ELSE "False"

\* request.headers.get("X-API-Key", "")
provided_key(x) == IF x.header = "<absent>" THEN "" ELSE x.header

\* faulty variant: the key is required even when none is configured
AuthDisabled_Never(x) == FALSE

\* if not settings.api_key
AuthDisabled(x) == x.api_key = ""

\* if request.method == "OPTIONS"
IsPreflight(x) == x.method = "OPTIONS"

\* faulty variant: no path is exempt
IsPublicPath_None(x) == FALSE

\* if request.url.path == "/health"
IsPublicPath(x) == x.path = "/health"

\* APIKeyMiddleware.dispatch: hand the request on, answer 401, or raise
dispatch(x) ==
  IF AuthDisabled(x) THEN "call_next"
  ELSE IF IsPreflight(x) THEN "call_next"
  ELSE IF IsPublicPath(x) THEN "call_next"
  ELSE IF provided_key(x) = "" THEN "401"
  ELSE IF compare_digest(provided_key(x), x.api_key) = "TypeError"
    THEN "TypeError"
  ELSE IF compare_digest(provided_key(x), x.api_key) = "False" THEN "401"
  ELSE "call_next"

\* the method each route is registered for
RouteMethod(path) ==
  IF path \in {"/health", "/api/personas"} THEN "GET" ELSE "POST"

\* @app.get("/health"): {"status": "ok", "auth_required": bool(api_key)}
health(x) ==
  [detail |-> "", status |-> "ok", auth_required |-> x.api_key # ""]

\* status codes a feedback route handler answers with
HandlerStatusCodes == {200, 400, 422}

\* exceptions that leave a feedback route handler
HandlerRaises == {"Exception", "CancelledError"}

InitAuth ==
  /\ OrchestratorIdle
  /\ agent_run = NoAgentRun
  /\ pair = NoPair
  /\ exchange \in [api_key : ApiKeys, method : Methods, path : Paths,
                   header : ApiKeyHeaders, stage : {"received"},
                   status_code : {0}, content : {NoBody},
                   handler : {"none"}, exception : {""}, propagated : {""},
                   log : {<<>>}]

\* a line RequestLoggingMiddleware writes: the request line, the completion
\* line with the status of the response, or the UNHANDLED line
LogLine(kind, level, x, status) ==
  [kind |-> kind, level |-> level, method |-> x.method, path |-> x.path,
   status |-> status]

\* RequestLoggingMiddleware.dispatch up to "await call_next(request)": the
\* request line is logged and the request goes on to APIKeyMiddleware
RequestLoggingMiddleware ==
  /\ exchange.stage = "received"
  /\ exchange' = [exchange EXCEPT
       !.stage = "authorizing",
       !.log = Append(@, LogLine("request", "INFO", exchange, 0))]
  /\ UNCHANGED <<agent_run, pair, orchestrator_vars>>

\* the request reaches APIKeyMiddleware.dispatch, which hands it on, answers
\* 401, or raises
APIKeyMiddleware ==
  /\ exchange.stage = "authorizing"
  /\ LET d == dispatch(exchange) IN
     exchange' =
       IF d = "call_next" THEN [exchange EXCEPT !.stage = "passed"]
       ELSE IF d = "401"
         THEN [exchange EXCEPT
                 !.stage = "answered",
                 !.status_code = 401,
                 !.content = [NoBody EXCEPT
                                !.detail = "Invalid or missing API key"]]
       ELSE [exchange EXCEPT !.stage = "raised", !.exception = d]
  /\ UNCHANGED <<agent_run, pair, orchestrator_vars>>

\* call_next(request): the CORS middleware answers a preflight, the router
\* answers 405 for a method the route is not registered for, else the
\* route handler runs
call_next ==
  /\ exchange.stage = "passed"
  /\ IF exchange.method = "OPTIONS"
       THEN \E code \in {200, 400, 405} :
              exchange' = [exchange EXCEPT !.stage = "answered",
                                           !.status_code = code]
       ELSE IF exchange.method # RouteMethod(exchange.path)
         THEN exchange' = [exchange EXCEPT !.stage = "answered",
                                           !.status_code = 405]
       ELSE IF exchange.path = "/health"
         THEN exchange' = [exchange EXCEPT !.stage = "answered",
                                           !.status_code = 200,
                                           !.content = health(exchange),
                                           !.handler = "health"]
       ELSE IF exchange.path = "/api/personas"
         THEN exchange' = [exchange EXCEPT !.stage = "answered",
                                           !.status_code = 200,
                                           !.handler = "get_personas"]
       ELSE \/ \E code \in HandlerStatusCodes :
                 exchange' = [exchange EXCEPT !.stage = "answered",
                                              !.status_code = code,
                                              !.handler = "feedback"]
            \/ \E cls \in HandlerRaises :
                 exchange' = [exchange EXCEPT !.stage = "raised",
                                              !.exception = cls,
                                              !.handler = "feedback"]
  /\ UNCHANGED <<agent_run, pair, orchestrator_vars>>

\* faulty variant: the except branch logs the exception and drops it
Reraise_Swallowed(cls) == ""

\* the bare raise of the except branch: the exception caught goes on
Reraise(cls) == cls

\* the rest of RequestLoggingMiddleware.dispatch, after call_next: a response
\* is logged with its status and returned; an Exception is logged as
\* UNHANDLED and raised again; any other exception passes through.  The
\* server answers a request whose exception leaves the application with 500
RequestLoggingMiddlewareReturn ==
  /\ exchange.stage \in {"answered", "raised"}
  /\ exchange' =
       IF exchange.stage = "answered"
         THEN [exchange EXCEPT
                 !.stage = "responded",
                 !.log = Append(@, LogLine("completion", "INFO", exchange,
                                           exchange.status_code))]
       ELSE IF IsInstanceException(exchange.exception)
         THEN [exchange EXCEPT
                 !.stage = "responded",
                 !.log = Append(@, LogLine("UNHANDLED", "ERROR", exchange, 0)),
                 !.propagated = Reraise(exchange.exception),
                 !.status_code = 500,
                 !.content = [NoBody EXCEPT !.detail = "Internal Server Error"]]
       ELSE [exchange EXCEPT
               !.stage = "responded",
               !.propagated = exchange.exception,
               !.status_code = 500,
               !.content = [NoBody EXCEPT !.detail = "Internal Server Error"]]
  /\ UNCHANGED <<agent_run, pair, orchestrator_vars>>

NextAuth ==
  \/ RequestLoggingMiddleware
  \/ APIKeyMiddleware
  \/ call_next
  \/ RequestLoggingMiddlewareReturn

SpecAuth == InitAuth /\ [][NextAuth]_vars

\* ------------------------------------------- two calls in one event loop
\* Two orchestrator calls served by the same process at the same time: call 1
\* is a stream_all_feedback call, call 2 a stream_all_feedback or a
\* get_all_feedback call.  Both are given the same persona list, and the
\* model call for entry i ends the same way (plan[i]) in both.  Items on a
\* queue carry the ghost field "call": the call whose task put them.
PairCalls == {1, 2}

PairKinds ==
  {<<"stream_all_feedback", "stream_all_feedback">>,
   <<"stream_all_feedback", "get_all_feedback">>}

Tagged(c, item) == [call |-> c, item |-> item]

\* faulty variant: one queue at module level, shared by every call
QueueOfCall_ModuleLevel(c) == 1

\* queue = asyncio.Queue() is a local of the call; _run_persona is a closure
\* over it, so the tasks of a call put on the queue that call reads
QueueOfCall(c) == c

\* the persona lists the two calls are given: one to MaxPersonas registered
\* ids, alternating, so that a list of three names one persona twice
PairPersonaIds ==
  {[i \in 1 .. k |-> IF i % 2 = 1 THEN "first_time_user" ELSE "power_user"] :
     k \in 1 .. MaxPersonas}

\* both calls have been made and neither has run yet
InitPair ==
  /\ OrchestratorIdle
  /\ agent_run = NoAgentRun
  /\ exchange = NoExchange
  /\ \E kind \in PairKinds :
     \E ids \in PairPersonaIds :
     \E plan \in [1 .. Len(ids) -> GatewayOutcomes] :
       /\ pair = [kind |-> kind,
                  personas |-> ValidPersonas(ids),
                  plan |-> plan,
                  pc |-> [c \in PairCalls |-> "idle"],
                  task |-> [c \in PairCalls |-> <<>>],
                  queue |-> [c \in PairCalls |-> <<>>],
                  received |-> [c \in PairCalls |-> 0],
                  yielded |-> [c \in PairCalls |-> <<>>],
                  results |-> [c \in PairCalls |-> <<>>],
                  feedback |-> [c \in PairCalls |-> <<>>]]

\* call c runs up to its first suspension: the tasks (or gather's children)
\* are created, none has run
PairStart(c) ==
  /\ pair.pc[c] = "idle"
  /\ pair' = [pair EXCEPT
       !.pc[c] = "running",
       !.task[c] = [i \in 1 .. Len(pair.personas) |-> "pending"],
       !.results[c] = [i \in 1 .. Len(pair.personas) |-> NoResult]]
  /\ UNCHANGED <<agent_run, exchange, orchestrator_vars>>

\* the first step of task i of call c, up to the model call; in a stream
\* call _run_persona first puts the start event
PairFirstStep(c, i) ==
  /\ pair.pc[c] = "running"
  /\ i \in DOMAIN pair.task[c]
  /\ Runnable(pair.task[c], i)
  /\ LET q == QueueOfCall(c) IN
     pair' = [pair EXCEPT
       !.task[c][i] = "running",
       !.queue[q] =
          IF pair.kind[c] = "stream_all_feedback"
            THEN QueuePut(@, Tagged(c, StartEvent(pair.personas[i], i)))
            ELSE @]
  /\ UNCHANGED <<agent_run, exchange, orchestrator_vars>>

\* what _run_persona of call c puts for outcome o of entry i
PairTerminal(q, c, i, o) ==
  IF o = "ok" THEN QueuePut(q, Tagged(c, Feedback(pair.personas[i], i)))
  ELSE IF Catches(o)
    THEN QueuePut(q, Tagged(c, ErrorRecord(pair.personas[i], i, o)))
  ELSE q

\* the model call of task i of call c ends as planned and the task runs to
\* its end
PairGatewayComplete(c, i) ==
  /\ pair.pc[c] \in {"running", "closed"}
  /\ i \in DOMAIN pair.task[c]
  /\ pair.task[c][i] = "running"
  /\ LET o == pair.plan[i]
         q == QueueOfCall(c)
     IN pair' = [pair EXCEPT
          !.task[c][i] = TaskEndState(o),
          !.queue[q] =
             IF pair.kind[c] = "stream_all_feedback"
               THEN PairTerminal(@, c, i, o)
               ELSE @,
          !.results[c] =
             IF pair.kind[c] = "get_all_feedback"
               THEN GatherStore(@, i, GatherResult(pair.personas[i], i, o))
               ELSE @]
  /\ UNCHANGED <<agent_run, exchange, orchestrator_vars>>

\* the loop of stream call c: while received < expected, the next item of
\* its queue is counted and yielded
PairStreamTake(c) ==
  /\ pair.kind[c] = "stream_all_feedback"
  /\ pair.pc[c] = "running"
  /\ pair.received[c] < Expected(pair.personas)
  /\ LET q == QueueOfCall(c) IN
     /\ pair.queue[q] # <<>>
     /\ pair' = [pair EXCEPT
          !.yielded[c] = Append(@, QueueHead(pair.queue[q])),
          !.received[c] = @ + 1,
          !.queue[q] = QueueRest(@)]
  /\ UNCHANGED <<agent_run, exchange, orchestrator_vars>>

\* the loop of stream call c has ended: the tasks not yet done are cancelled
\* and the generator returns
PairStreamEnd(c) ==
  /\ pair.kind[c] = "stream_all_feedback"
  /\ pair.pc[c] = "running"
  /\ pair.received[c] >= Expected(pair.personas)
  /\ pair' = [pair EXCEPT !.pc[c] = "ended",
                          !.task[c] = CancelUnfinished(@)]
  /\ UNCHANGED <<agent_run, exchange, orchestrator_vars>>

\* gather of batch call c is done; the loop over the results builds the list
\* and the call returns it
PairBatchReturn(c) ==
  /\ pair.kind[c] = "get_all_feedback"
  /\ pair.pc[c] = "running"
  /\ GatherDone(pair.task[c])
  /\ pair' = [pair EXCEPT !.pc[c] = "returned",
                          !.feedback[c] = BatchFeedback(pair.results[c])]
  /\ UNCHANGED <<agent_run, exchange, orchestrator_vars>>

NextPair ==
  \/ \E c \in PairCalls : PairStart(c)
  \/ \E c \in PairCalls : \E i \in 1 .. MaxPersonas : PairFirstStep(c, i)
  \/ \E c \in PairCalls : \E i \in 1 .. MaxPersonas : PairGatewayComplete(c, i)
  \/ \E c \in PairCalls : PairStreamTake(c)
  \/ \E c \in PairCalls : PairStreamEnd(c)
  \/ \E c \in PairCalls : PairBatchReturn(c)

SpecPair == InitPair /\ [][NextPair]_vars

\* ============================================================ properties
IsStart(e) == e.type = "persona-start"
IsTerminal(e) == e.type \in {"feedback", "error"}

\* number of items of seq that are of entry i and of one of the types
CountOf(seq, i, types) ==
  Cardinality({k \in 1 .. Len(seq) : seq[k].task = i /\ seq[k].type \in types})

StreamExhausted == mode \in StreamModes /\ pc = "ended"

\* everything the tasks of a stream run have put on the queue so far
Emitted == yielded \o queue

\* position of task i in the completion order
CompletedPos(i) == CHOOSE k \in 1 .. Len(completed) : completed[k] = i

\* ---------------------------------------------------------------------
\* C1: once the consumer of stream_all_feedback has stopped (closed the
\* generator at a yield, or was cancelled in queue.get()) after fewer than
\* 2n events, no task of the run is still pending or running: the ones that
\* had not finished were cancelled.
C1_StoppedConsumerLeavesNoTaskRunning ==
  (mode \in StreamModes /\ pc = "closed" /\ received < Expected(valid_personas))
    => \A i \in Tasks : ~Unfinished(task[i])

\* ---------------------------------------------------------------------
\* C2: a stream run with n >= 1 resolved personas never yields more than 2n
\* events; once every invocation has returned or raised an Exception, exactly
\* 2n events have been put on the queue for the consumer; and when the
\* generator ends it has yielded exactly 2n: n start events and n terminal
\* events; the streaming endpoint then has emitted these 2n frames followed
\* by exactly one done frame.
C2_ExactlyTwoNEvents ==
  mode \in StreamModes =>
    /\ Len(yielded) <= 2 * N
    /\ Len(Emitted) <= 2 * N
    /\ (N >= 1 /\ \A i \in Tasks : outcome[i] = "ok" \/ outcome[i] \in ExceptionSubclasses)
         => Len(Emitted) = 2 * N
    /\ (pc = "ended" /\ N >= 1) =>
         /\ Len(yielded) = 2 * N
         /\ Cardinality({k \in 1 .. Len(yielded) : IsStart(yielded[k])}) = N
         /\ Cardinality({k \in 1 .. Len(yielded) : IsTerminal(yielded[k])}) = N
         /\ mode = "stream_feedback" =>
              /\ Len(sse) = 2 * N + 1
              /\ Cardinality({k \in 1 .. Len(sse) : sse[k] = DoneFrame}) = 1
              /\ sse[Len(sse)] = DoneFrame

C2_Witness ==
  /\ mode = "stream_feedback"
  /\ pc = "ended"
  /\ N = 2
  /\ Len(yielded) = 4
  /\ Len(sse) = 5

\* ---------------------------------------------------------------------
\* C3: in a stream every resolved entry has at most one start event and at
\* most one terminal event (a result or an error record, never both), its
\* terminal event is never yielded before its start event, every yielded
\* event belongs to a resolved entry, and when the generator ends every
\* entry has had exactly one of each.
C3_OneStartThenOneTerminal ==
  mode \in StreamModes =>
    /\ \A k \in 1 .. Len(yielded) :
         /\ yielded[k].task \in Tasks
         /\ yielded[k].persona = valid_personas[yielded[k].task]
         /\ IsStart(yielded[k]) \/ IsTerminal(yielded[k])
         /\ IsTerminal(yielded[k]) =>
              \E j \in 1 .. k - 1 :
                IsStart(yielded[j]) /\ yielded[j].task = yielded[k].task
    /\ \A i \in Tasks :
         /\ CountOf(yielded, i, {"persona-start"}) <= 1
         /\ CountOf(yielded, i, {"feedback", "error"}) <= 1
         /\ pc = "ended" =>
              /\ CountOf(yielded, i, {"persona-start"}) = 1
              /\ CountOf(yielded, i, {"feedback", "error"}) = 1

C3_Witness ==
  /\ mode = "stream_all_feedback"
  /\ pc = "ended"
  /\ N = 2
  /\ \E a, b \in 1 .. Len(yielded) :
       yielded[a].type = "feedback" /\ yielded[b].type = "error"

\* ---------------------------------------------------------------------
\* C4: terminal events are yielded in the order in which the invocations
\* finished: of two yielded terminal events, the one yielded first belongs
\* to the invocation that completed first, whatever the list order.
C4_TerminalsInCompletionOrder ==
  mode \in StreamModes =>
    \A a, b \in 1 .. Len(yielded) :
      (a < b /\ IsTerminal(yielded[a]) /\ IsTerminal(yielded[b])) =>
        /\ yielded[a].task \in {completed[k] : k \in 1 .. Len(completed)}
        /\ yielded[b].task \in {completed[k] : k \in 1 .. Len(completed)}
        /\ CompletedPos(yielded[a].task) < CompletedPos(yielded[b].task)

\* A is listed before B, B's invocation completed first, and B's terminal
\* event was yielded before A's
C4_Witness ==
  /\ mode = "stream_all_feedback"
  /\ \E a, b \in 1 .. Len(yielded) :
       /\ a < b
       /\ IsTerminal(yielded[a]) /\ IsTerminal(yielded[b])
       /\ yielded[a].task = 2 /\ yielded[b].task = 1
       /\ yielded[a].type = "feedback" /\ yielded[b].type = "feedback"

\* ---------------------------------------------------------------------
\* C5: in the streaming endpoint the done frame occurs at most once, only as
\* the last frame, only when the orchestrator's stream has ended, and only
\* after every resolved entry has had its terminal frame; a response that
\* has ended carries it.
HasDone == \E k \in 1 .. Len(sse) : sse[k] = DoneFrame

C5_DoneOnceAndLast ==
  mode = "stream_feedback" =>
    /\ Cardinality({k \in 1 .. Len(sse) : sse[k] = DoneFrame}) <= 1
    /\ HasDone =>
         /\ sse[Len(sse)] = DoneFrame
         /\ pc = "ended"
         /\ \A i \in Tasks :
              \E k \in 1 .. Len(sse) - 1 :
                sse[k].task = i /\ sse[k].event \in {"message", "persona-error"}
    /\ pc = "ended" => HasDone

C5_Witness ==
  /\ mode = "stream_feedback"
  /\ HasDone
  /\ N = 2
  /\ Len(sse) = 5

\* ---------------------------------------------------------------------
\* C6: when no requested persona id resolves, a streaming run yields no
\* event, and no frame at all (so no done frame) reaches the caller of the
\* streaming endpoint.
C6_NothingWhenNoneResolves ==
  (mode \in StreamModes /\ ValidPersonas(persona_ids) = <<>>) =>
    /\ yielded = <<>>
    /\ sse = <<>>
    /\ task = <<>>
    /\ pc \in {"idle", "rejected", "ended"}

C6_Witness ==
  /\ mode = "stream_all_feedback"
  /\ persona_ids # <<>>
  /\ ValidPersonas(persona_ids) = <<>>
  /\ pc = "ended"


\* ---------------------------------------------------------------------
\* C7: when get_all_feedback has returned for a list of valid persona ids
\* whose invocations all succeeded, it returned one result per entry, and
\* the k-th result is the result of the k-th entry of the list, whatever the
\* order in which the invocations completed.
BatchReturned == mode \in BatchModes /\ pc = "returned"

AllSucceeded == \A i \in Tasks : outcome[i] = "ok"

C7_BatchKeepsInputOrder ==
  (BatchReturned /\ valid_personas = persona_ids /\ AllSucceeded) =>
    /\ Len(feedback) = Len(persona_ids)
    /\ \A k \in 1 .. Len(feedback) :
         /\ feedback[k].type = "feedback"
         /\ feedback[k].persona = persona_ids[k]
         /\ feedback[k].task = k

\* two different personas, the second one's invocation completed first
C7_Witness ==
  /\ BatchReturned
  /\ AllSucceeded
  /\ persona_ids = <<"first_time_user", "power_user">>
  /\ completed = <<2, 1>>
  /\ Len(feedback) = 2

\* ---------------------------------------------------------------------
\* C8: get_all_feedback never raises; when the invocations of the entries
\* in F raised an Exception and all the others returned, it returns exactly
\* the results of the entries not in F, in input order; and in a batch run
\* no task is ever cancelled because a sibling failed.
Failed == {i \in Tasks : outcome[i] \in ExceptionSubclasses}
Succeeded == {i \in Tasks : outcome[i] = "ok"}

\* the results of the entries of S, in list order
RECURSIVE ResultsOf(_, _)
ResultsOf(S, k) ==
  IF k > N THEN <<>>
  ELSE (IF k \in S THEN <<Feedback(valid_personas[k], k)>> ELSE <<>>)
       \o ResultsOf(S, k + 1)

C9_OnlyFeedbackReturned ==
  BatchReturned =>
    \A k \in 1 .. Len(feedback) : feedback[k].type = "feedback"

Known(ids) == SelectSeq(ids, LAMBDA p : p \in PERSONAS)

DirectModes == {"get_all_feedback", "stream_all_feedback"}

\* C11: get_all_feedback and stream_all_feedback drop the ids that do not
\* resolve: the run works on exactly the known ids of the list, in order
\* (as if the unknown ids were absent), one invocation slot per known id,
\* and no queued or yielded event, gathered result or returned feedback
\* names an unknown id; a batch whose invocations all succeed returns one
\* result per known id.
C11_UnknownIdsDropped ==
  (mode \in DirectModes /\ pc # "idle") =>
    /\ valid_personas = Known(persona_ids)
    /\ Len(task) = Len(Known(persona_ids))
    /\ Len(invoked) = Len(Known(persona_ids))
    /\ \A k \in 1 .. Len(Emitted) : Emitted[k].persona \in PERSONAS
    /\ \A k \in 1 .. Len(results) :
         results[k] = NoResult \/ results[k].persona \in PERSONAS
    /\ \A k \in 1 .. Len(feedback) : feedback[k].persona \in PERSONAS
    /\ (BatchReturned /\ AllSucceeded) =>
         Len(feedback) = Len(Known(persona_ids))

\* one valid and one bogus id: the batch returns exactly one result
C11_Witness ==
  /\ mode = "get_all_feedback"
  /\ persona_ids = <<"first_time_user", "bogus_id">>
  /\ pc = "returned"
  /\ invoked = <<1>>
  /\ Len(feedback) = 1
  /\ feedback[1].persona = "first_time_user"

\* ---------------------------------------------------------------------
HasUnknownId ==
  \E k \in 1 .. Len(persona_ids) : persona_ids[k] \notin PERSONAS

\* C12: on both endpoints a request that names at least one id that is not
\* (letter for letter) a registered id is answered with HTTP 400 and nothing
\* else happens: the orchestrator is not called (no frames normalised, no
\* personas resolved, no task), no invocation is made and no event stream is
\* started.
C12_UnknownIdRejectedBeforeOrchestration ==
  (mode \in EndpointModes /\ HasUnknownId) =>
    /\ pc \in {"idle", "rejected"}
    /\ pc = "rejected" => http = 400
    /\ pc = "idle" => http = 0
    /\ frames = NoFrames
    /\ valid_personas = <<>>
    /\ task = <<>>
    /\ invoked = <<>>
    /\ calls = {}
    /\ queue = <<>>
    /\ yielded = <<>>
    /\ sse = <<>>
    /\ feedback = <<>>

\* a streaming request naming a registered id in another case, next to a
\* registered id and with a well-formed frame list, has been rejected
C12_Witness ==
  /\ mode = "stream_feedback"
  /\ persona_ids = <<"first_time_user", "Power_User">>
  /\ request.frames = 1
  /\ pc = "rejected"
  /\ http = 400

\* ---------------------------------------------------------------------
\* how many times task i occurs in a sequence of task indices
Occurrences(seq, i) == Cardinality({k \in 1 .. Len(seq) : seq[k] = i})

RunOver ==
  \/ BatchReturned
  \/ StreamExhausted

\* C13: every resolved entry of the persona list (a repeated id is one
\* entry per occurrence) has its own invocation, made at most once while
\* the run lasts and exactly once when it is over; an invocation completes
\* at most once, and its one outcome is reported at most once: one terminal
\* event for the entry in a stream, the entry's own slot in a batch.
C13_OneInvocationPerEntry ==
  /\ Len(invoked) = Len(valid_personas)
  /\ \A i \in Tasks :
       /\ invoked[i] <= 1
       /\ task[i] # "pending" => invoked[i] = 1
       /\ RunOver => invoked[i] = 1
       /\ Occurrences(completed, i) <= 1
       /\ outcome[i] # "none" => Occurrences(completed, i) = 1
       /\ CountOf(Emitted, i, {"feedback", "error"}) <= 1
       /\ mode \in BatchModes /\ outcome[i] # "none" =>
            /\ results[i].task = i
            /\ results[i].persona = valid_personas[i]

\* the same id twice: two invocations, the first failed and the second
\* succeeded, and the stream reported each once
C13_Witness ==
  /\ mode = "stream_all_feedback"
  /\ persona_ids = <<"power_user", "power_user">>
  /\ pc = "ended"
  /\ invoked = <<1, 1>>
  /\ outcome = <<"Exception", "ok">>
  /\ CountOf(yielded, 1, {"error"}) = 1
  /\ CountOf(yielded, 2, {"feedback"}) = 1

\* ---------------------------------------------------------------------
\* C14: when no id of the list is registered (the list is empty or holds
\* unknown ids only), a started get_all_feedback has returned the empty
\* list, has spawned no task and has made no invocation.
C14_EmptyResolvedSetReturnsEmpty ==
  (mode = "get_all_feedback" /\ Known(persona_ids) = <<>> /\ pc # "idle") =>
    /\ pc = "returned"
    /\ feedback = <<>>
    /\ task = <<>>
    /\ invoked = <<>>
    /\ calls = {}
    /\ completed = <<>>
    /\ results = <<>>

\* a batch over a bogus id and a wrongly cased id has returned
C14_Witness ==
  /\ mode = "get_all_feedback"
  /\ persona_ids = <<"bogus_id", "Power_User">>
  /\ pc = "returned"
  /\ feedback = <<>>

\* ---------------------------------------------------------------------
\* C15: once get_all_feedback has returned, every invocation it spawned has
\* been made and has finished with an outcome (a result or an error); none
\* is waiting to start or still running.
C15_BatchReturnsAfterAllFinished ==
  BatchReturned =>
    \A i \in Tasks :
      /\ task[i] \notin {"pending", "running"}
      /\ invoked[i] = 1
      /\ outcome[i] # "none"
      /\ results[i] # NoResult

\* two invocations whose model calls finished in the reverse order, the
\* slower one with an error, before the batch returned
C15_Witness ==
  /\ mode = "get_all_feedback"
  /\ pc = "returned"
  /\ N = 2
  /\ completed = <<2, 1>>
  /\ outcome = <<"Exception", "ok">>

\* ---------------------------------------------------------------------
\* C16: when the generator of a stream run has ended after yielding all its
\* events, every task the run spawned is done or cancelled; none is waiting
\* to start or still running.
C16_NoTaskOutlivesExhaustedStream ==
  (mode \in StreamModes /\ pc = "ended") =>
    /\ Len(task) = Len(valid_personas)
    /\ \A i \in Tasks : task[i] \in {"done", "cancelled"}

\* a stream over two personas was consumed to its end
C16_Witness ==
  /\ mode = "stream_all_feedback"
  /\ pc = "ended"
  /\ N = 2
  /\ Len(yielded) = 4
  /\ \A i \in Tasks : task[i] = "done"

\* ---------------------------------------------------------------------
\* a stream run exists: the orchestrator's generator was created by a
\* direct call, or the endpoint has answered with the streaming response
StreamRunExists ==
  \/ mode = "stream_all_feedback"
  \/ mode = "stream_feedback" /\ pc = "response"

StreamRunOver ==
  /\ pc = "ended"
  /\ received = 2 * Len(valid_personas)
  /\ Len(yielded) = received
  /\ mode = "stream_feedback" =>
       /\ sse # <<>>
       /\ sse[Len(sse)] = DoneFrame

InFlight == {i \in Tasks : task[i] = "running"}

\* C18: the invocations of a run proceed concurrently: an invocation that
\* has not begun, and whose earlier siblings have begun, can take its first
\* step (and start its model call) at once, whether or not the model calls
\* of its siblings are still in flight; it never waits for one of them to
\* complete.
C18_InvocationsDoNotWaitForSiblings ==
  \A i \in Tasks :
    (task[i] = "pending" /\ \A j \in 1 .. i - 1 : task[j] # "pending") =>
      ENABLED TaskFirstStep(i)

\* two model calls of one batch run are in flight at the same time
C18_Witness ==
  /\ mode = "get_all_feedback"
  /\ N = 2
  /\ InFlight = {1, 2}
  /\ calls = {1, 2}
  /\ completed = <<>>

\* ---------------------------------------------------------------------
\* the two input shapes of a request body
SingleShape == request.image /\ request.metadata
ExplicitShape == request.frames > 0

ExactlyOneShape ==
  \/ SingleShape /\ ~ExplicitShape
  \/ ExplicitShape /\ ~SingleShape

\* C19: a request that passed the persona checks is accepted only when
\* exactly one input shape is present; with neither shape, and with both,
\* it is answered with HTTP 400 and the orchestrator is not called.
C19_ExactlyOneShapeAccepted ==
  (/\ mode \in EndpointModes
   /\ PersonasFieldValid(persona_ids)
   /\ ~HasUnknownId
   /\ pc # "idle") =>
     IF ExactlyOneShape
       THEN pc # "rejected"
       ELSE /\ pc = "rejected"
            /\ http = 400
            /\ frames = NoFrames
            /\ valid_personas = <<>>
            /\ task = <<>>

\* ---------------------------------------------------------------------
\* an endpoint has normalised the request and gone on to the orchestrator
OrchestratorCalledByEndpoint ==
  mode \in EndpointModes /\ pc \notin {"idle", "rejected"}

\* C20: whenever an endpoint has called the orchestrator, the frame list it
\* passed is non-empty and canonical: for a request with a frames list, the
\* frames of that list, as many and in the same order; otherwise the one
\* frame built from the request's top-level image and metadata.
C20_FramesCanonical ==
  OrchestratorCalledByEndpoint =>
    /\ frames.items # <<>>
    /\ Len(frames.items) = frames.count
    /\ IF request.frames > 0
         THEN frames.items = [k \in 1 .. request.frames |-> k]
         ELSE /\ request.image
              /\ request.metadata
              /\ frames.items = <<0>>

\* a two-frame flow went through the batch endpoint in its order
C20_Witness ==
  /\ mode = "get_feedback"
  /\ request.frames = 2
  /\ pc = "returned"
  /\ frames.items = <<1, 2>>

\* ---------------------------------------------------------------------
\* the annotations of the feedback an invocation has handed back
ReturnedAnnotations ==
  IF agent_run.stage = "returned" THEN agent_run.output.annotations ELSE <<>>

\* C21: every annotation of a feedback that an invocation returns (and the
\* orchestrator then returns or emits) has a frame_index that references a
\* frame of the request: 0 <= frame_index < number of frames.
C21_FrameIndexReferencesAFrame ==
  \A k \in 1 .. Len(ReturnedAnnotations) :
    /\ ReturnedAnnotations[k].frame_index >= 0
    /\ ReturnedAnnotations[k].frame_index < agent_run.frame_count

\* ---------------------------------------------------------------------
\* the annotations of the PersonaFeedback that was constructed, if one was
ConstructedAnnotations ==
  IF agent_run.stage \in {"validated", "returned"}
    THEN agent_run.output.annotations ELSE <<>>

\* C22: every annotation of a constructed PersonaFeedback has an
\* issue_index that references an entry of that feedback's issues list:
\* 0 <= issue_index < len(issues).
C22_IssueIndexReferencesAnIssue ==
  \A k \in 1 .. Len(ConstructedAnnotations) :
    /\ ConstructedAnnotations[k].issue_index >= 0
    /\ ConstructedAnnotations[k].issue_index < agent_run.output.issues

\* ---------------------------------------------------------------------
\* some value of the model's answer lies outside the documented limits
RawOutOfBounds ==
  \/ agent_run.raw.score \notin 1 .. 10
  \/ \E k \in 1 .. Len(agent_run.raw.annotations) :
       LET a == agent_run.raw.annotations[k] IN
       \/ a.x_pct \notin 0 .. 100
       \/ a.y_pct \notin 0 .. 100
       \/ a.width_pct \notin 0 .. 100
       \/ a.height_pct \notin 0 .. 100
       \/ a.issue_index < 0
       \/ a.frame_index_given /\ a.frame_index < 0

Constructed == agent_run.stage \in {"validated", "returned"}

\* C23: the construction fails whenever a percentage lies outside [0,100],
\* issue_index or frame_index is negative, or the score is outside 1..10;
\* a constructed annotation whose frame_index was left out has frame_index
\* 0; hence every feedback that was constructed or returned has its score
\* in 1..10, its percentages in [0,100] and no negative index.
C23_BoundsEnforcedAtConstruction ==
  /\ RawOutOfBounds => agent_run.stage \in {"invoked", "failed", "running", "raised"}
  /\ Constructed =>
       /\ agent_run.output.score \in 1 .. 10
       /\ Len(agent_run.output.annotations) = Len(agent_run.raw.annotations)
       /\ \A k \in 1 .. Len(agent_run.output.annotations) :
            LET a == agent_run.output.annotations[k] IN
            /\ a.x_pct \in 0 .. 100
            /\ a.y_pct \in 0 .. 100
            /\ a.width_pct \in 0 .. 100
            /\ a.height_pct \in 0 .. 100
            /\ a.issue_index >= 0
            /\ a.frame_index >= 0
            /\ ~agent_run.raw.annotations[k].frame_index_given =>
                 a.frame_index = 0

\* an answer whose only fault is x_pct = 101 in its second annotation was
\* refused
C23_Witness ==
  /\ agent_run.stage = "raised"
  /\ agent_run.raw.score = 10
  /\ Len(agent_run.raw.annotations) = 2
  /\ AnnotationValid(agent_run.raw.annotations[1])
  /\ agent_run.raw.annotations[1].height_pct = 100
  /\ agent_run.raw.annotations[2] =
       [frame_index_given |-> FALSE, frame_index |-> 0, x_pct |-> 101,
        y_pct |-> 0, width_pct |-> 0, height_pct |-> 0, issue_index |-> 0]

\* ---------------------------------------------------------------------
\* no model call of the run raised
NoModelCallFailed ==
  \A i \in Tasks : outcome[i] \notin {"Exception", "CancelledError"}

\* C24: an accepted request through POST /api/feedback none of whose model
\* calls fails is answered with HTTP 200 and exactly one Feedback per
\* requested persona, in request order (two frames and the persona
\* first_time_user: exactly one Feedback).
C24_AcceptedBatchReturnsOnePerPersona ==
  (mode = "get_feedback" /\ pc = "returned" /\ NoModelCallFailed) =>
    /\ http = 200
    /\ Len(feedback) = Len(persona_ids)
    /\ \A k \in 1 .. Len(feedback) :
         /\ feedback[k].type = "feedback"
         /\ feedback[k].persona = persona_ids[k]

\* ---------------------------------------------------------------------
\* the SSE event type each kind of orchestrator event is serialised with;
\* "message" is the data-only frame
EventTypeOf(type) ==
  IF type = "persona-start" THEN "persona-start"
  ELSE IF type = "feedback" THEN "message"
  ELSE "persona-error"

\* the frames of the response without the closing done frame
EventFrames ==
  IF pc = "ended" /\ sse # <<>> THEN SubSeq(sse, 1, Len(sse) - 1) ELSE sse

\* C25: the streaming endpoint serialises each event the orchestrator
\* yielded to exactly one SSE frame, in the order of the events and dropping
\* none: a start event as persona-start, a PersonaFeedback as a data-only
\* frame, an error record as persona-error; when the generator has ended the
\* last frame is the done frame with the empty payload.
C25_OneFramePerEventInOrder ==
  /\ \A p \in PERSONAS : \A i \in 1 .. MaxPersonas :
       /\ SSEFrames(StartEvent(p, i)) =
            <<[event |-> "persona-start", persona |-> p, task |-> i]>>
       /\ SSEFrames(Feedback(p, i)) =
            <<[event |-> "message", persona |-> p, task |-> i]>>
       /\ SSEFrames(ErrorRecord(p, i, "Exception")) =
            <<[event |-> "persona-error", persona |-> p, task |-> i]>>
  /\ mode = "stream_feedback" =>
       /\ Len(EventFrames) = Len(yielded)
       /\ \A k \in 1 .. Len(yielded) :
            /\ EventFrames[k].event = EventTypeOf(yielded[k].type)
            /\ EventFrames[k].persona = yielded[k].persona
            /\ EventFrames[k].task = yielded[k].task
       /\ pc = "ended" =>
            /\ Len(sse) = Len(yielded) + 1
            /\ sse[Len(sse)] = [event |-> "done", persona |-> "", task |-> 0]

\* a streamed request over two personas: each start frame is followed by
\* the persona's error frame, then the done frame
C25_Witness ==
  /\ mode = "stream_feedback"
  /\ pc = "ended"
  /\ Len(yielded) = 4
  /\ [k \in 1 .. Len(sse) |-> sse[k].event] =
       <<"persona-start", "persona-error", "persona-start", "persona-error",
         "done">>
  /\ sse[3].task = 2

\* ---------------------------------------------------------------------
\* the request has to prove itself and does not carry the configured key
KeyRequiredAndNotGiven ==
  /\ exchange.api_key # ""
  /\ exchange.method # "OPTIONS"
  /\ exchange.path # "/health"
  /\ exchange.header # exchange.api_key

\* C26: with an API key configured, a request that is neither an OPTIONS
\* request nor a request to /health, and that carries no X-API-Key header or
\* one that differs from the configured key, is answered 401 with the
\* detail "Invalid or missing API key", and no handler is invoked for it.
C26_WrongKeyAnswered401 ==
  (KeyRequiredAndNotGiven /\ exchange.stage \notin {"received", "authorizing"}) =>
    /\ exchange.stage \in {"answered", "responded"}
    /\ exchange.status_code = 401
    /\ exchange.content.detail = "Invalid or missing API key"
    /\ exchange.handler = "none"

\* ---------------------------------------------------------------------
\* C27: GET /health is public: whatever key is configured and whatever
\* X-API-Key header the request carries or omits, the middleware hands it
\* on, and it is answered 200 by the health handler with status "ok" and
\* with auth_required true exactly when a non-empty key is configured.
C27_HealthIsPublic ==
  (exchange.method = "GET" /\ exchange.path = "/health") =>
    /\ exchange.stage \in {"received", "authorizing", "passed", "answered",
                          "responded"}
    /\ exchange.stage = "responded" =>
         /\ exchange.status_code = 200
         /\ exchange.handler = "health"
         /\ exchange.content.status = "ok"
         /\ exchange.content.auth_required = (exchange.api_key # "")

\* a health check without a key was answered while a key is configured
C27_Witness ==
  /\ exchange.method = "GET"
  /\ exchange.path = "/health"
  /\ exchange.api_key = "secret"
  /\ exchange.header = "<absent>"
  /\ exchange.stage = "responded"
  /\ exchange.status_code = 200
  /\ exchange.content.auth_required

\* ---------------------------------------------------------------------
\* C28: with an empty configured key authentication is off: the middleware
\* hands every request on, whatever X-API-Key header it carries or omits,
\* and no request is answered 401.
C28_EmptyKeyDisablesAuth ==
  exchange.api_key = "" =>
    /\ exchange.status_code # 401
    /\ exchange.content.detail # "Invalid or missing API key"
    /\ exchange.exception # "TypeError"

\* with no key configured a request with a wrong key reached its handler
C28_Witness ==
  /\ exchange.api_key = ""
  /\ exchange.header = "wrong-key"
  /\ exchange.method = "POST"
  /\ exchange.path = "/api/feedback"
  /\ exchange.stage = "responded"
  /\ exchange.handler = "feedback"

\* ---------------------------------------------------------------------
\* C29: on both feedback endpoints a request whose personas list is empty
\* is rejected by request validation with HTTP 422 and nothing else
\* happens: no persona check (which would answer 400), no normalised
\* frames, no orchestrator state.
C29_EmptyPersonasRejected422 ==
  (mode \in EndpointModes /\ persona_ids = <<>>) =>
    /\ pc \in {"idle", "rejected"}
    /\ http \in {0, 422}
    /\ pc = "rejected" <=> http = 422
    /\ frames = NoFrames
    /\ valid_personas = <<>>
    /\ task = <<>>
    /\ invoked = <<>>
    /\ yielded = <<>>
    /\ sse = <<>>
    /\ feedback = <<>>

\* a streaming request with personas = [] and no frames at all was
\* answered 422 (not the 400 of the frame check)
C29_Witness ==
  /\ mode = "stream_feedback"
  /\ persona_ids = <<>>
  /\ request = [image |-> FALSE, metadata |-> FALSE, frames |-> -1]
  /\ pc = "rejected"
  /\ http = 422

\* ---------------------------------------------------------------------
\* the start event of entry i has been handed to the consumer
StartDelivered(i) == CountOf(yielded, i, {"persona-start"}) = 1

\* C30: in a stream run, whenever the invocation of an entry has begun its
\* start event has already been put (it is on the queue or was yielded),
\* ahead of anything else of that entry; and the delivery of a queued event
\* to the waiting generator does not wait for any model call to finish, so a
\* start event reaches the consumer while its call is in flight.
C30_StartBeforeGatewayCall ==
  mode \in StreamModes =>
    /\ \A i \in Tasks :
         /\ invoked[i] >= 1 => CountOf(Emitted, i, {"persona-start"}) = 1
         /\ i \in calls => CountOf(Emitted, i, {"persona-start"}) = 1
         /\ \A k \in 1 .. Len(Emitted) :
              (Emitted[k].task = i /\ IsTerminal(Emitted[k])) =>
                \E j \in 1 .. k - 1 :
                  Emitted[j].task = i /\ IsStart(Emitted[j])
    /\ (/\ pc = "waiting"
        /\ queue # <<>>
        /\ \A i \in Tasks : task[i] # "pending") => ENABLED StreamWake

\* the consumer holds the start event of an entry whose model call has not
\* finished yet
C30_Witness ==
  /\ mode = "stream_all_feedback"
  /\ N = 1
  /\ StartDelivered(1)
  /\ task[1] = "running"
  /\ 1 \in calls
  /\ outcome[1] = "none"


\* C31: two calls running concurrently in one process never observe each
\* other's events: every event a stream call yields, and every event waiting
\* in its queue, was put by a task of that same call, and the call's counter
\* counts exactly the events it took from its own queue.
C31_ConcurrentRunsAreIsolated ==
  \A c \in DOMAIN pair.pc :
    /\ \A k \in DOMAIN pair.yielded[c] : pair.yielded[c][k].call = c
    /\ \A k \in DOMAIN pair.queue[c] : pair.queue[c][k].call = c
    /\ pair.received[c] = Len(pair.yielded[c])
    /\ pair.received[c] <= Expected(pair.personas)

\* two stream calls are both in their loops, each has yielded a start event
\* and a terminal event of its own, and each still has a task running
C31_Witness ==
  /\ pair.kind = <<"stream_all_feedback", "stream_all_feedback">>
  /\ \A c \in PairCalls :
       /\ pair.pc[c] = "running"
       /\ Len(pair.yielded[c]) >= 2
       /\ \E k \in DOMAIN pair.yielded[c] :
            pair.yielded[c][k].item.type \in {"feedback", "error"}
       /\ \E i \in DOMAIN pair.task[c] : pair.task[c][i] = "running"


\* the items stream call c has yielded, without the ghost tag
StreamItems(c) == [k \in DOMAIN pair.yielded[c] |-> pair.yielded[c][k].item]

\* how many PersonaFeedback values of persona p the sequence holds
FeedbackCount(seq, p) ==
  Cardinality({k \in DOMAIN seq : seq[k].type = "feedback" /\ seq[k].persona = p})

\* the entries with an item of one of the types in the sequence
EntriesWith(seq, types) == {seq[k].task : k \in {j \in DOMAIN seq : seq[j].type \in types}}

BothFinished ==
  /\ pair.kind = <<"stream_all_feedback", "get_all_feedback">>
  /\ pair.pc = <<"ended", "returned">>

C33_StartEventsInListOrder ==
  mode \in StreamModes =>
    \A j, k \in DOMAIN Emitted :
      (j < k /\ IsStart(Emitted[j]) /\ IsStart(Emitted[k])) =>
        Emitted[j].task < Emitted[k].task

\* the consumer has been handed both start events in list order and then the
\* terminal event of the second entry before that of the first
C33_Witness ==
  /\ mode \in StreamModes
  /\ Len(yielded) = 4
  /\ IsStart(yielded[1]) /\ yielded[1].task = 1
  /\ IsStart(yielded[2]) /\ yielded[2].task = 2
  /\ IsTerminal(yielded[3]) /\ yielded[3].task = 2
  /\ IsTerminal(yielded[4]) /\ yielded[4].task = 1


\* the orchestrator has resolved the persona list it was given
PersonasResolved ==
  pc \in {"gathering", "returned", "waiting", "yielded", "closed", "ended"}

\* number of SSE frames with one of the event names
FrameCount(events) ==
  Cardinality({k \in DOMAIN sse : sse[k].event \in events})

\* C34: whenever an endpoint calls the orchestrator the persona list it
\* passes is non-empty and every id in it resolves, so the orchestrator drops
\* nothing and works on as many entries as were requested; the complete
\* response of an accepted streaming request therefore holds at least one
\* persona-start frame, at least one terminal frame, and the final done
\* frame.
C34_EndpointPassesResolvingList ==
  OrchestratorCalledByEndpoint =>
    /\ persona_ids # <<>>
    /\ \A k \in DOMAIN persona_ids : get_persona(persona_ids[k]) # "None"
    /\ InvalidPersonas(persona_ids) = <<>>
    /\ PersonasResolved =>
         /\ N = Len(persona_ids)
         /\ valid_personas = persona_ids
    /\ (mode = "stream_feedback" /\ pc = "ended") =>
         /\ FrameCount({"persona-start"}) >= 1
         /\ FrameCount({"message", "persona-error"}) >= 1
         /\ sse[Len(sse)] = DoneFrame

\* the response of a streaming request for two personas is complete: two
\* start frames, two terminal frames, then the done frame
C34_Witness ==
  /\ mode = "stream_feedback"
  /\ pc = "ended"
  /\ Len(persona_ids) = 2
  /\ N = 2
  /\ FrameCount({"persona-start"}) = 2
  /\ FrameCount({"message", "persona-error"}) = 2
  /\ sse[Len(sse)] = DoneFrame


\* ---------------------------------------------------------------------
\* C35: every request is logged by the request logging middleware: the
\* request line is written before anything else happens to the request, and
\* a request that is answered, an answer of 401 by the API key middleware
\* included, gets exactly one more line, the completion line with the status
\* of the response.  When the code below the middleware raises an Exception
\* the second line is the UNHANDLED line instead, and the exception that
\* leaves the middleware is the one that was raised.
C35_RequestsLoggedAndExceptionsReraised ==
  /\ exchange.stage \notin {"none", "received"} =>
       /\ Len(exchange.log) >= 1
       /\ exchange.log[1] = LogLine("request", "INFO", exchange, 0)
  /\ (exchange.stage = "responded" /\ exchange.exception = "") =>
       /\ exchange.log = <<LogLine("request", "INFO", exchange, 0),
                           LogLine("completion", "INFO", exchange,
                                   exchange.status_code)>>
       /\ exchange.propagated = ""
  /\ (exchange.stage = "responded" /\ IsInstanceException(exchange.exception)) =>
       /\ exchange.log = <<LogLine("request", "INFO", exchange, 0),
                           LogLine("UNHANDLED", "ERROR", exchange, 0)>>
       /\ exchange.propagated = exchange.exception

\* a request without a key, answered 401 by the API key middleware, has its
\* request line and its completion line with status 401 in the log
C35_Witness ==
  /\ exchange.stage = "responded"
  /\ exchange.api_key = "secret"
  /\ exchange.header = "<absent>"
  /\ exchange.path = "/api/feedback"
  /\ exchange.status_code = 401
  /\ Len(exchange.log) = 2
  /\ exchange.log[2].kind = "completion"
  /\ exchange.log[2].status = 401


\* ---------------------------------------------------------------------
\* the invocation has ended or waits for the model's answer
PastPreparation == agent_run.stage \notin {"none", "invoked"}

ModelCalled == agent_run.stage \in {"running", "validated", "raised", "returned"}

\* the model was called once with the k images in frame order and then the
\* text prompt that names the persona id
CallHasImagesThenPrompt ==
  LET k == agent_run.frame_count
      parts == agent_run.call.message_parts
  IN /\ agent_run.model_calls = 1
     /\ Len(parts) = k + 1
     /\ \A i \in 1 .. k : parts[i] = [part |-> "image", frame |-> i]
     /\ parts[k + 1].part = "text"
     /\ parts[k + 1].prompt.persona_id = agent_run.persona

\* C36: for an invocation with k frames get_persona_feedback calls the model
\* exactly once, with exactly k image parts in frame order followed by
\* exactly one text prompt (k + 1 message parts) that names the persona id.
C36_ModelCalledOnceWithKImagesAndPrompt ==
  PastPreparation => CallHasImagesThenPrompt

\* for a list of dicts that is not empty the call is made as described
DictFramesCalledAsDescribed ==
  (PastPreparation /\ agent_run.frame_kind = "dict" /\ agent_run.frame_count > 0)
    => CallHasImagesThenPrompt

\* ---------------------------------------------------------------------
\* the text part of the call
UserPrompt ==
  agent_run.call.message_parts[agent_run.frame_count + 1].prompt

\* C37: when the model is called for more than one frame the system prompt
\* of the call carries the multi-screen flow wording, when it is called for
\* exactly one frame it carries the single-screenshot wording, and the user
\* prompt is in the same form (flow or single) as the system prompt.
C37_SystemPromptWordingAgrees ==
  ModelCalled =>
    /\ agent_run.frame_count > 1 => agent_run.call.system_prompt.form = "flow"
    /\ agent_run.frame_count = 1 => agent_run.call.system_prompt.form = "single"
    /\ UserPrompt.form = agent_run.call.system_prompt.form

\* the wording is in the instructions of the call, and there it agrees with
\* the number of frames and with the user prompt
InstructionsWordingAgrees ==
  ModelCalled =>
    /\ agent_run.frame_count > 1 => agent_run.call.instructions.form = "flow"
    /\ agent_run.frame_count = 1 => agent_run.call.instructions.form = "single"
    /\ UserPrompt.form = agent_run.call.instructions.form
    /\ UserPrompt.form = "flow" =>
         Len(UserPrompt.frames_listed) = agent_run.frame_count

====
